---- MODULE Spec2Model ----
(***************************************************************************)
(* Model of tally_bridge.py: an HTTP front end (single-threaded            *)
(* HTTPServer running in the main thread) that writes a commanded-state    *)
(* table and sends Lilliput tally datagrams over UDP, and a daemon thread  *)
(* (poller) that re-sends every non-'off' entry of a snapshot of the       *)
(* table.                                                                  *)
(*                                                                         *)
(* Two threads are modelled: the main thread (module start-up, the request *)
(* handler do_GET called from serve_forever, the KeyboardInterrupt branch  *)
(* of main) and the poller thread.  Thread-local computation (parsing,     *)
(* the scan of the private snapshot for the next non-'off' entry) is       *)
(* folded into the step that precedes it; every access to shared state     *)
(* (current_states, state_lock, the sockets) is a step of its own.         *)
(***************************************************************************)
EXTENDS Integers, Sequences, FiniteSets, TLC

\* Number of GET requests the environment issues in one behaviour.
MaxRequests == 2

\* Number of configured bandeaux (entries of BANDEAUX), numbered from 1.
NumBands == 2

\* Number of sendto calls the network fails (OSError) in one behaviour.
MaxSendFailures == 1

-----------------------------------------------------------------------------
\* Configuration (module level constants of tally_bridge.py)

BANDEAUX == 1..NumBands

SCREENS == {1, 2}

VALID_STATES == {"off", "rouge", "vert", "jaune"}

\* 0x07, 0x17, 0x27, 0x37
STATE_BYTES == [st \in VALID_STATES |->
                  CASE st = "off"   -> 7
                    [] st = "rouge" -> 23
                    [] st = "vert"  -> 39
                    [] st = "jaune" -> 55]

\* Iteration order of the nested loops over BANDEAUX / current_states and
\* the two screens: (1,1), (1,2), (2,1), (2,2), ...
NPairs == 2 * Cardinality(BANDEAUX)

Pair(i) == << ((i - 1) \div 2) + 1, ((i - 1) % 2) + 1 >>

-----------------------------------------------------------------------------
\* Payload encoder

Zeros(n) == [i \in 1..n |-> 0]

\* The sentinel for "build_payload raised ValueError": no payload exists.
NoPayload == << >>

\* Bug variant: the checksum offsets of the two screens are exchanged.
build_payload_SwappedOffsets(screen_id, state) ==
    IF screen_id \notin {1, 2} THEN NoPayload
    ELSE IF state \notin DOMAIN STATE_BYTES THEN NoPayload
    ELSE LET header     == << 90, 28, 0, 32, 0 + screen_id, 255, 0,
                              IF screen_id = 1 THEN 122 ELSE 0, 5 >>
             state_byte == STATE_BYTES[state]
             zeros      == Zeros(16)
             checksum_offset == IF screen_id = 1 THEN 156 ELSE 21
             checksum   == (state_byte + checksum_offset) % 256
             body       == << state_byte >> \o zeros \o << checksum, 221 >>
             payload    == header \o body
         IN  IF Len(payload) # 28 THEN NoPayload ELSE payload

build_payload(screen_id, state) ==
    IF screen_id \notin {1, 2} THEN NoPayload
    ELSE IF state \notin DOMAIN STATE_BYTES THEN NoPayload
    ELSE LET header     == << 90, 28, 0, 32, 0 + screen_id, 255, 0,
                              IF screen_id = 1 THEN 122 ELSE 0, 5 >>
             state_byte == STATE_BYTES[state]
             zeros      == Zeros(16)
             checksum_offset == IF screen_id = 1 THEN 21 ELSE 156
             checksum   == (state_byte + checksum_offset) % 256
             body       == << state_byte >> \o zeros \o << checksum, 221 >>
             payload    == header \o body
         IN  IF Len(payload) # 28 THEN NoPayload ELSE payload

-----------------------------------------------------------------------------
VARIABLES
    udp_sockets,      \* band -> "none" | "open" | "closed"
    current_states,   \* band -> screen -> state
    state_lock,       \* "free" | "poller" | "main" : owner of state_lock
    wire,             \* band -> screen -> last datagram transmitted for it
    \* poller thread
    pollPc,           \* "off" | "acquire" | "copy" | "release" | "send" | "sleep"
    states_snapshot,  \* the dict the poller builds: copied bands -> screen -> state
    pollBand,         \* next band the dict comprehension copies
    pollIdx,          \* position of the for-loops in Pair order
    pollSent,         \* send_tally_udp calls of the current cycle, in order
    \* main thread
    mainPc,           \* see MainPcs
    sockIdx,          \* next band of the socket creation / closing loops
    params,           \* locals state, screen_id, band of do_GET (or NoParams)
    old_state,        \* local old_state of do_GET
    success,          \* local success of do_GET
    response,         \* status code sent for the current request, 0 = none yet
    httpSent,         \* send_tally_udp calls of the current request
    shutIdx,          \* position of the OFF loops of main
    shutSent,         \* send_tally_udp calls of the shutdown sequence
    nreq,             \* requests received so far
    nfail             \* sendto calls failed by the network so far

vars == << udp_sockets, current_states, state_lock, wire,
           pollPc, states_snapshot, pollBand, pollIdx, pollSent,
           mainPc, sockIdx, params, old_state, success, response,
           httpSent, shutIdx, shutSent, nreq, nfail >>

pollVars == << pollPc, states_snapshot, pollBand, pollIdx, pollSent >>

handlerVars == << params, old_state, success, response, httpSent, nreq >>

shutVars == << shutIdx, shutSent >>

MainPcs == {"startup", "aborted", "start_poller", "main", "serve",
            "validate", "lock", "read", "write", "unlock", "send",
            "respond", "done", "shutdown", "close", "exited"}

\* The main thread is inside do_GET.
HandlerPcs == {"validate", "lock", "read", "write", "unlock", "send",
               "respond", "done"}

NoParams == [state |-> "", screen_id |-> 0, band |-> 0, error |-> ""]

AllOff == [band \in BANDEAUX |-> [screen_id \in SCREENS |-> "off"]]

Init ==
    /\ udp_sockets = [band \in BANDEAUX |-> "none"]
    /\ current_states = AllOff
    /\ state_lock = "free"
    /\ wire = [band \in BANDEAUX |-> [screen_id \in SCREENS |-> NoPayload]]
    /\ pollPc = "off"
    /\ states_snapshot = << >>
    /\ pollBand = 1
    /\ pollIdx = 1
    /\ pollSent = << >>
    /\ mainPc = "startup"
    /\ sockIdx = 1
    /\ params = NoParams
    /\ old_state = ""
    /\ success = FALSE
    /\ response = 0
    /\ httpSent = << >>
    /\ shutIdx = 1
    /\ shutSent = << >>
    /\ nreq = 0
    /\ nfail = 0

-----------------------------------------------------------------------------
\* Transport: send_tally_udp

\* Outcomes of sock.sendto the environment may produce: TRUE = the datagram
\* left, FALSE = OSError.  At most MaxSendFailures failures per behaviour.
NetOutcomes == IF nfail < MaxSendFailures THEN {TRUE, FALSE} ELSE {TRUE}

\* sock.sendto(payload, (ip, UDP_PORT_DEST)) on the socket of band: does the
\* datagram leave?  A closed socket raises OSError whatever the network does.
sendto(band, netOk) == udp_sockets[band] = "open" /\ netOk

\* How the try block (lines 97-104) ends for a configured band: "" when it
\* reaches return True, else the exception raised in it (ValueError by
\* build_payload, OSError by sendto).
TryOutcome(band, screen_id, state, netOk) ==
    IF build_payload(screen_id, state) = NoPayload THEN "ValueError"
    ELSE IF ~sendto(band, netOk) THEN "OSError"
    ELSE ""

\* Bug variant: the handler is written for socket errors only.
CaughtOnlyOSError(exc) == exc = "OSError"

\* except Exception (line 105): every exception of the try block is caught.
Caught(exc) == exc \in {"ValueError", "OSError"}

\* The call send_tally_udp(band, screen_id, state): what it returns (ok),
\* the datagram it put on the wire (NoPayload when none was transmitted) and
\* whether an exception left the function instead of a return value (raised).
send_tally_udp(band, screen_id, state, netOk) ==
    LET failed(escaped) ==
            [band |-> band, screen_id |-> screen_id, state |-> state,
             datagram |-> NoPayload, ok |-> FALSE, raised |-> escaped]
    IN  IF band \notin BANDEAUX THEN failed(FALSE)
        ELSE LET exc == TryOutcome(band, screen_id, state, netOk)
             IN  IF exc # "" THEN failed(~Caught(exc))
                 ELSE [band |-> band, screen_id |-> screen_id, state |-> state,
                       datagram |-> build_payload(screen_id, state),
                       ok |-> TRUE, raised |-> FALSE]

\* The wire after the call: the last datagram of (band, screen) is replaced
\* when one was transmitted.
WireAfter(rec) ==
    IF rec.datagram = NoPayload THEN wire
    ELSE [wire EXCEPT ![rec.band][rec.screen_id] = rec.datagram]

\* The network failed this call (as opposed to a closed socket or bad args).
NetFailed(band, netOk) ==
    band \in BANDEAUX /\ udp_sockets[band] = "open" /\ ~netOk

FailAfter(band, netOk) == IF NetFailed(band, netOk) THEN nfail + 1 ELSE nfail

\* The interpreter is running: the daemon thread dies with the process.
ProcessAlive == mainPc \notin {"startup", "aborted", "exited"}

-----------------------------------------------------------------------------
\* Poller thread

\* Bug variant: every entry is re-sent.
ShouldResendAll(state) == state \in VALID_STATES

\* Line 127: only non-'off' entries are re-sent.
ShouldResend(state) == state # "off"

SnapState(i) == states_snapshot[Pair(i)[1]][Pair(i)[2]]

\* The for-loops over the snapshot, from position i: the next entry that is
\* re-sent, NPairs + 1 when the loops are over.
RECURSIVE NextActive(_, _)
NextActive(snap, i) ==
    IF i > NPairs THEN NPairs + 1
    ELSE IF ShouldResend(snap[Pair(i)[1]][Pair(i)[2]]) THEN i
    ELSE NextActive(snap, i + 1)

PcAfter(i) == IF i > NPairs THEN "sleep" ELSE "send"

\* with state_lock: __enter__
PollerAcquire ==
    /\ ProcessAlive
    /\ pollPc = "acquire"
    /\ state_lock = "free"
    /\ state_lock' = "poller"
    /\ pollPc' = "copy"
    /\ pollBand' = 1
    /\ states_snapshot' = << >>
    /\ UNCHANGED << udp_sockets, current_states, wire, pollIdx, pollSent,
                    mainPc, sockIdx, handlerVars, shutVars, nfail >>

\* One iteration of the dict comprehension: band: screens.copy()
PollerCopy ==
    /\ ProcessAlive
    /\ pollPc = "copy"
    /\ states_snapshot' = states_snapshot @@ (pollBand :> current_states[pollBand])
    /\ IF pollBand + 1 \in BANDEAUX
         THEN pollBand' = pollBand + 1 /\ pollPc' = "copy"
         ELSE pollBand' = pollBand /\ pollPc' = "release"
    /\ UNCHANGED << udp_sockets, current_states, state_lock, wire, pollIdx,
                    pollSent, mainPc, sockIdx, handlerVars, shutVars, nfail >>

\* with state_lock: __exit__, then the scan for the first entry to re-send
PollerRelease ==
    /\ ProcessAlive
    /\ pollPc = "release"
    /\ state_lock' = "free"
    /\ pollIdx' = NextActive(states_snapshot, 1)
    /\ pollPc' = PcAfter(pollIdx')
    /\ UNCHANGED << udp_sockets, current_states, wire, states_snapshot,
                    pollBand, pollSent, mainPc, sockIdx, handlerVars,
                    shutVars, nfail >>

\* Bug variant: the poller gives up an entry whose send failed and writes
\* 'off' into the table.
PollerSendClearsOnFailure ==
    /\ ProcessAlive
    /\ pollPc = "send"
    /\ \E netOk \in NetOutcomes :
         LET band == Pair(pollIdx)[1]
             rec  == send_tally_udp(band, Pair(pollIdx)[2], SnapState(pollIdx), netOk)
         IN  /\ wire' = WireAfter(rec)
             /\ pollSent' = Append(pollSent, rec)
             /\ nfail' = FailAfter(band, netOk)
             /\ current_states' =
                  IF rec.ok THEN current_states
                  ELSE [current_states EXCEPT ![band][Pair(pollIdx)[2]] = "off"]
    /\ pollIdx' = NextActive(states_snapshot, pollIdx + 1)
    /\ pollPc' = PcAfter(pollIdx')
    /\ UNCHANGED << udp_sockets, state_lock, states_snapshot,
                    pollBand, mainPc, sockIdx, handlerVars, shutVars >>

\* Bug variant: a failed send ends the for-loops of the cycle.
PollerSendBreaksOnFailure ==
    /\ ProcessAlive
    /\ pollPc = "send"
    /\ \E netOk \in NetOutcomes :
         LET band == Pair(pollIdx)[1]
             rec  == send_tally_udp(band, Pair(pollIdx)[2], SnapState(pollIdx), netOk)
         IN  /\ wire' = WireAfter(rec)
             /\ pollSent' = Append(pollSent, rec)
             /\ nfail' = FailAfter(band, netOk)
             /\ pollIdx' = IF rec.ok THEN NextActive(states_snapshot, pollIdx + 1)
                           ELSE NPairs + 1
    /\ pollPc' = PcAfter(pollIdx')
    /\ UNCHANGED << udp_sockets, current_states, state_lock, states_snapshot,
                    pollBand, mainPc, sockIdx, handlerVars, shutVars >>

\* Bug variant: a failed send ends the thread (the failure propagates out of
\* the loop instead of being swallowed by send_tally_udp).
PollerSendDiesOnFailure ==
    /\ ProcessAlive
    /\ pollPc = "send"
    /\ \E netOk \in NetOutcomes :
         LET band == Pair(pollIdx)[1]
             rec  == send_tally_udp(band, Pair(pollIdx)[2], SnapState(pollIdx), netOk)
         IN  /\ wire' = WireAfter(rec)
             /\ pollSent' = Append(pollSent, rec)
             /\ nfail' = FailAfter(band, netOk)
             /\ pollIdx' = NextActive(states_snapshot, pollIdx + 1)
             /\ pollPc' = IF rec.ok THEN PcAfter(pollIdx') ELSE "off"
    /\ UNCHANGED << udp_sockets, current_states, state_lock, states_snapshot,
                    pollBand, mainPc, sockIdx, handlerVars, shutVars >>

\* send_tally_udp(band, screen_id, state) for the entry at pollIdx; the
\* return value is ignored; then the scan for the next entry
PollerSend ==
    /\ ProcessAlive
    /\ pollPc = "send"
    /\ \E netOk \in NetOutcomes :
         LET band == Pair(pollIdx)[1]
             rec  == send_tally_udp(band, Pair(pollIdx)[2], SnapState(pollIdx), netOk)
         IN  /\ wire' = WireAfter(rec)
             /\ pollSent' = Append(pollSent, rec)
             /\ nfail' = FailAfter(band, netOk)
    /\ pollIdx' = NextActive(states_snapshot, pollIdx + 1)
    /\ pollPc' = PcAfter(pollIdx')
    /\ UNCHANGED << udp_sockets, current_states, state_lock, states_snapshot,
                    pollBand, mainPc, sockIdx, handlerVars, shutVars >>

\* time.sleep(POLL_INTERVAL) returns: next iteration of while True
PollerWake ==
    /\ ProcessAlive
    /\ pollPc = "sleep"
    /\ pollPc' = "acquire"
    /\ pollSent' = << >>
    /\ UNCHANGED << udp_sockets, current_states, state_lock, wire,
                    states_snapshot, pollBand, pollIdx, mainPc, sockIdx,
                    handlerVars, shutVars, nfail >>

-----------------------------------------------------------------------------
\* Main thread: module start-up (lines 36-46, 138-139, 216-231)

LastBand == CHOOSE band \in BANDEAUX : \A other \in BANDEAUX : other <= band

\* One iteration of the socket loop: socket(), setsockopt(), bind(); an
\* exception is re-raised and the import of the module fails.
\* Bug variant: a socket that cannot be created is logged and skipped
\* instead of re-raised.
CreateSocketSkipsFailure ==
    /\ mainPc = "startup"
    /\ \E created \in BOOLEAN :
         /\ udp_sockets' = IF created
                             THEN [udp_sockets EXCEPT ![sockIdx] = "open"]
                             ELSE udp_sockets
         /\ IF sockIdx = LastBand
              THEN mainPc' = "start_poller" /\ sockIdx' = 1
              ELSE mainPc' = mainPc /\ sockIdx' = sockIdx + 1
    /\ UNCHANGED << current_states, state_lock, wire, pollVars, handlerVars,
                    shutVars, nfail >>

CreateSocket ==
    /\ mainPc = "startup"
    /\ \E created \in BOOLEAN :
         IF created
           THEN /\ udp_sockets' = [udp_sockets EXCEPT ![sockIdx] = "open"]
                /\ IF sockIdx = LastBand
                     THEN mainPc' = "start_poller" /\ sockIdx' = 1
                     ELSE mainPc' = mainPc /\ sockIdx' = sockIdx + 1
           ELSE /\ mainPc' = "aborted"
                /\ UNCHANGED << udp_sockets, sockIdx >>
    /\ UNCHANGED << current_states, state_lock, wire, pollVars, handlerVars,
                    shutVars, nfail >>

\* poller_thread.start()
StartPoller ==
    /\ mainPc = "start_poller"
    /\ pollPc' = "acquire"
    /\ mainPc' = "main"
    /\ UNCHANGED << udp_sockets, current_states, state_lock, wire,
                    states_snapshot, pollBand, pollIdx, pollSent, sockIdx,
                    handlerVars, shutVars, nfail >>

\* main(): HTTPServer(...), the banner, server.serve_forever()
StartServer ==
    /\ mainPc = "main"
    /\ mainPc' = "serve"
    /\ UNCHANGED << udp_sockets, current_states, state_lock, wire, pollVars,
                    sockIdx, handlerVars, shutVars, nfail >>

-----------------------------------------------------------------------------
\* Main thread: TallyHandler.do_GET

\* Query strings the environment sends; "" stands for an absent parameter.
RawStates == {"", "off", "rouge", "ROUGE", "vert", "jaune", "violet"}
RawIds    == {"", "1", "2", "3", "x"}
RawBands  == {"", "1", "2", "3", "4", "x"}

\* str.lower() on the strings above
lower(str) == IF str = "ROUGE" THEN "rouge" ELSE str

\* int(str) on the strings above; NotInt stands for ValueError
NotInt == -1

int(str) ==
    CASE str = "1" -> 1
      [] str = "2" -> 2
      [] str = "3" -> 3
      [] str = "4" -> 4
      [] OTHER -> NotInt

\* params.get(name, [default])[0]
get(raw, default) == IF raw = "" THEN default ELSE raw

\* Lines 164-166: the three locals, or the ValueError of int()
ParseParams(rawState, rawId, rawBand) ==
    LET state     == lower(get(rawState, "off"))
        screen_id == int(get(rawId, "1"))
        band      == int(get(rawBand, "1"))
    IN  IF screen_id = NotInt \/ band = NotInt
          THEN [state |-> state, screen_id |-> 0, band |-> 0, error |-> "ValueError"]
          ELSE [state |-> state, screen_id |-> screen_id, band |-> band, error |-> ""]

\* Bug variant: the check of state against VALID_STATES is missing.
ValidRequestNoStateCheck(p) ==
    /\ p.error = ""
    /\ p.screen_id \in {1, 2}
    /\ p.band \in BANDEAUX

\* Bug variant: the check of band against BANDEAUX is missing.
ValidRequestNoBandCheck(p) ==
    /\ p.error = ""
    /\ p.state \in VALID_STATES
    /\ p.screen_id \in {1, 2}

\* Lines 169-182: the three validations
ValidRequest(p) ==
    /\ p.error = ""
    /\ p.state \in VALID_STATES
    /\ p.screen_id \in {1, 2}
    /\ p.band \in BANDEAUX

\* A request for a path containing '/favicon': 204, nothing else
HttpFavicon ==
    /\ mainPc = "serve"
    /\ nreq < MaxRequests
    /\ nreq' = nreq + 1
    /\ response' = 204
    /\ mainPc' = "done"
    /\ UNCHANGED << udp_sockets, current_states, state_lock, wire, pollVars,
                    sockIdx, params, old_state, success, httpSent, shutVars,
                    nfail >>

\* serve_forever hands a GET to do_GET, which parses the query
\* Bug variant: a second request is taken up while the first one is
\* between its table write and its send.
HttpReceiveWhileBusy ==
    /\ mainPc \in {"serve", "send"}
    /\ nreq < MaxRequests
    /\ nreq' = nreq + 1
    /\ \E rawState \in RawStates, rawId \in RawIds, rawBand \in RawBands :
         params' = ParseParams(rawState, rawId, rawBand)
    /\ mainPc' = "validate"
    /\ UNCHANGED << udp_sockets, current_states, state_lock, wire, pollVars,
                    sockIdx, old_state, success, response, httpSent, shutVars,
                    nfail >>

HttpReceive ==
    /\ mainPc = "serve"
    /\ nreq < MaxRequests
    /\ nreq' = nreq + 1
    /\ \E rawState \in RawStates, rawId \in RawIds, rawBand \in RawBands :
         params' = ParseParams(rawState, rawId, rawBand)
    /\ mainPc' = "validate"
    /\ UNCHANGED << udp_sockets, current_states, state_lock, wire, pollVars,
                    sockIdx, old_state, success, response, httpSent, shutVars,
                    nfail >>

\* send_error(400, ...) and return, from a validation or from except ValueError
HttpReject ==
    /\ mainPc = "validate"
    /\ ~ValidRequest(params)
    /\ response' = 400
    /\ mainPc' = "done"
    /\ UNCHANGED << udp_sockets, current_states, state_lock, wire, pollVars,
                    sockIdx, params, old_state, success, httpSent, nreq,
                    shutVars, nfail >>

HttpAccept ==
    /\ mainPc = "validate"
    /\ ValidRequest(params)
    /\ mainPc' = "lock"
    /\ UNCHANGED << udp_sockets, current_states, state_lock, wire, pollVars,
                    sockIdx, handlerVars, shutVars, nfail >>

\* Bug variant: the handler enters the block without waiting for the lock.
HttpLockNoWait ==
    /\ mainPc = "lock"
    /\ state_lock' = "main"
    /\ mainPc' = "read"
    /\ UNCHANGED << udp_sockets, current_states, wire, pollVars, sockIdx,
                    handlerVars, shutVars, nfail >>

\* with state_lock: __enter__
HttpLock ==
    /\ mainPc = "lock"
    /\ state_lock = "free"
    /\ state_lock' = "main"
    /\ mainPc' = "read"
    /\ UNCHANGED << udp_sockets, current_states, wire, pollVars, sockIdx,
                    handlerVars, shutVars, nfail >>

\* old_state = current_states[band][screen_id]
HttpReadOld ==
    /\ mainPc = "read"
    /\ old_state' = current_states[params.band][params.screen_id]
    /\ mainPc' = "write"
    /\ UNCHANGED << udp_sockets, current_states, state_lock, wire, pollVars,
                    sockIdx, params, success, response, httpSent, nreq,
                    shutVars, nfail >>

\* Bug variant: the band's dict is replaced instead of one key being set.
SetStateReplacesBand(band, screen_id, state) ==
    [current_states EXCEPT
       ![band] = [sc \in SCREENS |-> IF sc = screen_id THEN state ELSE "off"]]

\* current_states[band][screen_id] = state
SetState(band, screen_id, state) ==
    [current_states EXCEPT ![band][screen_id] = state]

HttpWrite ==
    /\ mainPc = "write"
    /\ current_states' = SetState(params.band, params.screen_id, params.state)
    /\ mainPc' = "unlock"
    /\ UNCHANGED << udp_sockets, state_lock, wire, pollVars, sockIdx,
                    handlerVars, shutVars, nfail >>

\* Bug variant: the handler answers without the immediate send.
HttpUnlockNoSend ==
    /\ mainPc = "unlock"
    /\ state_lock' = "free"
    /\ mainPc' = "respond"
    /\ UNCHANGED << udp_sockets, current_states, wire, pollVars, sockIdx,
                    handlerVars, shutVars, nfail >>

\* with state_lock: __exit__
HttpUnlock ==
    /\ mainPc = "unlock"
    /\ state_lock' = "free"
    /\ mainPc' = "send"
    /\ UNCHANGED << udp_sockets, current_states, wire, pollVars, sockIdx,
                    handlerVars, shutVars, nfail >>

\* success = send_tally_udp(band, screen_id, state)
\* Bug variant: a failed send puts the previous state back into the table.
HttpSendRollsBack ==
    /\ mainPc = "send"
    /\ \E netOk \in NetOutcomes :
         LET rec == send_tally_udp(params.band, params.screen_id, params.state, netOk)
         IN  /\ wire' = WireAfter(rec)
             /\ httpSent' = Append(httpSent, rec)
             /\ success' = rec.ok
             /\ nfail' = FailAfter(params.band, netOk)
             /\ current_states' =
                  IF rec.ok THEN current_states
                  ELSE SetState(params.band, params.screen_id, old_state)
    /\ mainPc' = "respond"
    /\ UNCHANGED << udp_sockets, state_lock, pollVars, sockIdx,
                    params, old_state, response, nreq, shutVars >>

HttpSend ==
    /\ mainPc = "send"
    /\ \E netOk \in NetOutcomes :
         LET rec == send_tally_udp(params.band, params.screen_id, params.state, netOk)
         IN  /\ wire' = WireAfter(rec)
             /\ httpSent' = Append(httpSent, rec)
             /\ success' = rec.ok
             /\ nfail' = FailAfter(params.band, netOk)
    /\ mainPc' = "respond"
    /\ UNCHANGED << udp_sockets, current_states, state_lock, pollVars, sockIdx,
                    params, old_state, response, nreq, shutVars >>

\* Bug variant: the result of the send is ignored.
StatusAlwaysOk(ok) == 200

\* Lines 194-201: 200 with the OK body, or send_error(500, ...)
StatusFor(ok) == IF ok THEN 200 ELSE 500

HttpRespond ==
    /\ mainPc = "respond"
    /\ response' = StatusFor(success)
    /\ mainPc' = "done"
    /\ UNCHANGED << udp_sockets, current_states, state_lock, wire, pollVars,
                    sockIdx, params, old_state, success, httpSent, nreq,
                    shutVars, nfail >>

\* do_GET returns: the handler object and its locals are dropped, the
\* connection is closed and serve_forever waits for the next request
HttpReturn ==
    /\ mainPc = "done"
    /\ params' = NoParams
    /\ old_state' = ""
    /\ success' = FALSE
    /\ response' = 0
    /\ httpSent' = << >>
    /\ mainPc' = "serve"
    /\ UNCHANGED << udp_sockets, current_states, state_lock, wire, pollVars,
                    sockIdx, nreq, shutVars, nfail >>

-----------------------------------------------------------------------------
\* Main thread: except KeyboardInterrupt in main (lines 232-247)

\* Ctrl+C reaches the main thread inside serve_forever, between requests or
\* inside do_GET (except Exception does not catch it); the with statement
\* releases state_lock on the way out and the handler's locals are gone.
KeyboardInterrupt ==
    /\ mainPc \in {"serve"} \cup HandlerPcs
    /\ state_lock' = IF state_lock = "main" THEN "free" ELSE state_lock
    /\ params' = NoParams
    /\ old_state' = ""
    /\ success' = FALSE
    /\ response' = 0
    /\ httpSent' = << >>
    /\ mainPc' = "shutdown"
    /\ shutIdx' = 1
    /\ UNCHANGED << udp_sockets, current_states, wire, pollVars, sockIdx,
                    nreq, shutSent, nfail >>

\* Bug variant: the OFF loops stop at the first send that fails.
ShutdownSendStopsOnFailure ==
    /\ mainPc = "shutdown"
    /\ \E netOk \in NetOutcomes :
         LET band == Pair(shutIdx)[1]
             rec  == send_tally_udp(band, Pair(shutIdx)[2], "off", netOk)
         IN  /\ wire' = WireAfter(rec)
             /\ shutSent' = Append(shutSent, rec)
             /\ nfail' = FailAfter(band, netOk)
             /\ IF shutIdx = NPairs \/ ~rec.ok
                  THEN mainPc' = "close" /\ shutIdx' = shutIdx /\ sockIdx' = 1
                  ELSE mainPc' = mainPc /\ shutIdx' = shutIdx + 1 /\ sockIdx' = sockIdx
    /\ UNCHANGED << udp_sockets, current_states, state_lock, pollVars,
                    handlerVars >>

\* One iteration of the OFF loops: send_tally_udp(band, screen_id, 'off')
ShutdownSend ==
    /\ mainPc = "shutdown"
    /\ \E netOk \in NetOutcomes :
         LET band == Pair(shutIdx)[1]
             rec  == send_tally_udp(band, Pair(shutIdx)[2], "off", netOk)
         IN  /\ wire' = WireAfter(rec)
             /\ shutSent' = Append(shutSent, rec)
             /\ nfail' = FailAfter(band, netOk)
    /\ IF shutIdx = NPairs
         THEN mainPc' = "close" /\ shutIdx' = shutIdx /\ sockIdx' = 1
         ELSE mainPc' = mainPc /\ shutIdx' = shutIdx + 1 /\ sockIdx' = sockIdx
    /\ UNCHANGED << udp_sockets, current_states, state_lock, pollVars,
                    handlerVars >>

\* One iteration of the closing loop: sock.close(); after the last one main
\* returns and the process exits
CloseSocket ==
    /\ mainPc = "close"
    /\ udp_sockets' = [udp_sockets EXCEPT ![sockIdx] = "closed"]
    /\ IF sockIdx = LastBand
         THEN mainPc' = "exited" /\ sockIdx' = sockIdx
         ELSE mainPc' = mainPc /\ sockIdx' = sockIdx + 1
    /\ UNCHANGED << current_states, state_lock, wire, pollVars, handlerVars,
                    shutVars, nfail >>

-----------------------------------------------------------------------------
Next ==
    \/ CreateSocket \/ StartPoller \/ StartServer
    \/ HttpFavicon \/ HttpReceive \/ HttpReject \/ HttpAccept
    \/ HttpLock \/ HttpReadOld \/ HttpWrite \/ HttpUnlock
    \/ HttpSend \/ HttpRespond \/ HttpReturn
    \/ KeyboardInterrupt \/ ShutdownSend \/ CloseSocket
    \/ PollerAcquire \/ PollerCopy \/ PollerRelease \/ PollerSend \/ PollerWake

Spec == Init /\ [][Next]_vars

\* The poller is a thread of its own: the interpreter keeps scheduling it and
\* time.sleep returns, so a step of it that stays possible is taken.  The
\* main thread is driven by its environment (requests, Ctrl+C): no fairness.
poller ==
    PollerAcquire \/ PollerCopy \/ PollerRelease \/ PollerSend \/ PollerWake

FairSpec == Spec /\ WF_vars(poller)

-----------------------------------------------------------------------------
\* send_tally_udp on its own: one call with arbitrary arguments on sockets
\* that are open or already closed.  The arguments are held in params, the
\* record of the call in httpSent, the return value in success.

ArgStates == VALID_STATES \cup {"blue"}

ArgScreens == 0..3

ArgBands == 0..(NumBands + 1)

NothingSent == [band \in BANDEAUX |-> [screen_id \in SCREENS |-> NoPayload]]

TransportInit ==
    /\ udp_sockets \in [BANDEAUX -> {"open", "closed"}]
    /\ params \in [state : ArgStates, screen_id : ArgScreens, band : ArgBands,
                    error : {""}]
    /\ mainPc = "call"
    /\ current_states = AllOff
    /\ state_lock = "free"
    /\ wire = NothingSent
    /\ pollPc = "off"
    /\ states_snapshot = << >>
    /\ pollBand = 1
    /\ pollIdx = 1
    /\ pollSent = << >>
    /\ sockIdx = 1
    /\ old_state = ""
    /\ success = FALSE
    /\ response = 0
    /\ httpSent = << >>
    /\ shutIdx = 1
    /\ shutSent = << >>
    /\ nreq = 0
    /\ nfail = 0

TransportCall ==
    /\ mainPc = "call"
    /\ \E netOk \in NetOutcomes :
         LET rec == send_tally_udp(params.band, params.screen_id, params.state, netOk)
         IN  /\ wire' = WireAfter(rec)
             /\ httpSent' = << rec >>
             /\ success' = rec.ok
             /\ nfail' = FailAfter(params.band, netOk)
    /\ mainPc' = "returned"
    /\ UNCHANGED << udp_sockets, current_states, state_lock, pollVars, sockIdx,
                    params, old_state, response, nreq, shutVars >>

TransportNext == TransportCall

TransportSpec == TransportInit /\ [][TransportNext]_vars

-----------------------------------------------------------------------------
\* Vocabulary of the properties

\* The request being handled names a configured group, a screen in {1,2}
\* and one of the four states.
Validated(p) ==
    /\ p # NoParams
    /\ p.state \in {"off", "rouge", "vert", "jaune"}
    /\ p.screen_id \in {1, 2}
    /\ p.band \in BANDEAUX

\* The request being handled has an invalid state, an invalid screen id or
\* an unconfigured group.
Invalid(p) ==
    /\ p # NoParams
    /\ \/ p.state \notin {"off", "rouge", "vert", "jaune"}
       \/ p.screen_id \notin {1, 2}
       \/ p.band \notin BANDEAUX

\* The send call rec is for (band, screen_id) with state.
IsSend(rec, band, screen_id, state) ==
    rec.band = band /\ rec.screen_id = screen_id /\ rec.state = state

\* What the call rec carried: the payload of its state, when it was
\* transmitted at all.
CarriesPayloadOf(rec, screen_id, state) ==
    /\ rec.ok <=> rec.datagram # NoPayload
    /\ rec.datagram # NoPayload => rec.datagram = build_payload(screen_id, state)

-----------------------------------------------------------------------------
\* C1: a validated request first sets table entry (band, screen) to the
\* requested state and then issues exactly one immediate send for that
\* (band, screen) carrying the requested state's payload, all before the
\* response is produced: the send happens while the entry already holds
\* the requested state and no response exists, and when the response is
\* about to be or has been produced exactly one such send was issued.
C1_SentOnceWhenAnswering ==
    (Validated(params) /\ mainPc \in {"respond", "done"}) =>
        /\ Len(httpSent) = 1
        /\ IsSend(httpSent[1], params.band, params.screen_id, params.state)
        /\ CarriesPayloadOf(httpSent[1], params.screen_id, params.state)
        /\ current_states[params.band][params.screen_id] = params.state

C1_SendAfterWriteBeforeResponse ==
    Len(httpSent') > Len(httpSent) =>
        /\ Validated(params)
        /\ current_states[params.band][params.screen_id] = params.state
        /\ response = 0 /\ response' = 0
        /\ httpSent = << >>

C1_WriteSendRespond ==
    /\ [](C1_SentOnceWhenAnswering)
    /\ [][C1_SendAfterWriteBeforeResponse]_vars
    /\ [][response' # response /\ response' # 0 /\ Validated(params)
            => C1_SentOnceWhenAnswering]_vars

\* The scenario state=rouge&band=1&id=2 answered 200.
C1_Witness ==
    /\ mainPc = "done" /\ response = 200
    /\ params.state = "rouge" /\ params.band = 1 /\ params.screen_id = 2
    /\ current_states[1][2] = "rouge" /\ old_state = "off"
    /\ Len(httpSent) = 1
    /\ httpSent[1].datagram = build_payload(2, "rouge")
    /\ wire[1][2] = build_payload(2, "rouge")

\* C2: a request with an invalid state, an invalid screen id or an
\* unconfigured group is answered 400; no step of its handling changes an
\* entry of the table or transmits a datagram.
C2_InvalidStep ==
    (Invalid(params) /\ mainPc \in HandlerPcs /\ mainPc' # mainPc) =>
        /\ mainPc = "validate" => mainPc' \in {"done", "shutdown"}
        /\ (mainPc = "validate" /\ mainPc' = "done") => response' = 400
        /\ mainPc = "done" => response = 400
        /\ current_states' = current_states
        /\ wire' = wire
        /\ httpSent = << >> /\ httpSent' = << >>

C2_InvalidRejected == [][C2_InvalidStep]_vars

\* state=violet answered 400 while the table holds a non-idle entry.
C2_Witness ==
    /\ mainPc = "done" /\ response = 400
    /\ params.state = "violet"
    /\ current_states[1][1] = "jaune"
    /\ httpSent = << >>

\* C3: a validated request is answered 200 exactly when its immediate send
\* returned success and 500 exactly when it returned failure, and gets no
\* other status.
C3_StatusFollowsSend ==
    Validated(params) =>
        /\ response \in {0, 200, 500}
        /\ mainPc # "done" => response = 0
        /\ mainPc = "done" =>
             /\ Len(httpSent) = 1
             /\ response = 200 <=> httpSent[1].ok
             /\ response = 500 <=> ~httpSent[1].ok

\* A validated request answered 500 after a failed send.
C3_Witness ==
    /\ mainPc = "done" /\ response = 500
    /\ Validated(params)
    /\ Len(httpSent) = 1 /\ ~httpSent[1].ok /\ httpSent[1].datagram = NoPayload

\* C4: the Refresh Loop never issues a send carrying the idle state: every
\* call of a cycle, and the one it is about to make, carries a state other
\* than 'off', and so does every datagram it transmitted.
C4_PollerNeverSendsOff ==
    /\ \A i \in 1..Len(pollSent) :
         /\ pollSent[i].state # "off"
         /\ pollSent[i].datagram # build_payload(pollSent[i].screen_id, "off")
    /\ pollPc = "send" => SnapState(pollIdx) # "off"

\* A finished cycle that sent for one entry and skipped an idle one.
C4_Witness ==
    /\ pollPc = "sleep"
    /\ Len(pollSent) = 1 /\ pollSent[1].ok
    /\ states_snapshot[1][1] = "off" /\ states_snapshot[2][2] = "vert"
    /\ IsSend(pollSent[1], 2, 2, "vert")

\* C5: if entry (band, screen) holds a non-idle state st and no further
\* request (nor shutdown) arrives, the Refresh Loop issues
\* send(band, screen, st) once in every cycle, for ever, failed sends
\* included; a cycle sends exactly once for each non-idle entry of its
\* snapshot and the loop does not end while the process lives.
Quiet == mainPc = "serve"

\* Number of calls of the current cycle for (band, screen_id).
CycleSends(band, screen_id) ==
    Cardinality({i \in 1..Len(pollSent) :
                   pollSent[i].band = band /\ pollSent[i].screen_id = screen_id})

\* A cycle is over and issued exactly one send(band, screen_id, st).
CycleSentOnce(band, screen_id, st) ==
    /\ pollPc = "sleep"
    /\ CycleSends(band, screen_id) = 1
    /\ \E i \in 1..Len(pollSent) : IsSend(pollSent[i], band, screen_id, st)

C5_OncePerCycle ==
    pollPc = "sleep" =>
        \A band \in BANDEAUX, screen_id \in SCREENS :
            IF states_snapshot[band][screen_id] # "off"
              THEN CycleSentOnce(band, screen_id, states_snapshot[band][screen_id])
              ELSE CycleSends(band, screen_id) = 0

C5_LoopAlive ==
    (mainPc \in {"main", "serve", "shutdown", "close"} \cup HandlerPcs)
        => pollPc # "off"

C5_RefreshForEver ==
    /\ [](C5_OncePerCycle)
    /\ [](C5_LoopAlive)
    /\ \A band \in BANDEAUX, screen_id \in SCREENS :
         \A st \in {"rouge", "vert", "jaune"} :
            <>[](Quiet /\ current_states[band][screen_id] = st)
               => /\ []<>(CycleSentOnce(band, screen_id, st))
                  /\ []<>(pollPc = "acquire" /\ pollSent = << >>)

\* Entry (1,1) = jaune, no request in progress: a cycle has ended in which
\* send(1,1,jaune) was issued once and failed, and nothing went out for
\* (1,1) so far.
C5_Witness ==
    /\ Quiet /\ nreq = MaxRequests
    /\ current_states[1][1] = "jaune"
    /\ CycleSentOnce(1, 1, "jaune")
    /\ \E i \in 1..Len(pollSent) : IsSend(pollSent[i], 1, 1, "jaune") /\ ~pollSent[i].ok

\* C6: the request's read-previous-then-write and the loop's copy of the
\* table exclude each other under state_lock, and the dict the loop builds
\* agrees with the table on every band copied so far; when the loop leaves
\* the block the snapshot is the whole table of that instant.
InHandlerBlock == mainPc \in {"read", "write", "unlock"}

InPollerBlock == pollPc \in {"copy", "release"}

C6_SnapshotConsistent ==
    /\ ~(InHandlerBlock /\ InPollerBlock)
    /\ InHandlerBlock => state_lock = "main"
    /\ InPollerBlock =>
         /\ state_lock = "poller"
         /\ \A band \in DOMAIN states_snapshot :
              states_snapshot[band] = current_states[band]
    /\ pollPc = "release" => states_snapshot = current_states

\* The loop holds the lock with a complete snapshot of a table with
\* non-idle entries in both bands while a request waits for the lock.
C6_Witness ==
    /\ pollPc = "release" /\ mainPc = "lock"
    /\ states_snapshot[1][2] = "rouge"
    /\ states_snapshot = current_states
    /\ Validated(params) /\ params.band = 1 /\ params.state = "vert"

\* C7: the write of a request changes entry (band, screen) to the requested
\* state and leaves every other entry as it was; no other step changes the
\* table.
C7_WriteStep ==
    /\ (mainPc = "write" /\ mainPc' = "unlock") =>
          \A band \in BANDEAUX, screen_id \in SCREENS :
             current_states'[band][screen_id] =
                IF band = params.band /\ screen_id = params.screen_id
                  THEN params.state
                  ELSE current_states[band][screen_id]
    /\ current_states' # current_states => (mainPc = "write" /\ mainPc' = "unlock")

C7_WriteChangesOneEntry == [][C7_WriteStep]_vars

\* set(1, 2, vert) done while (1,1) holds rouge.
C7_Witness ==
    /\ mainPc = "unlock"
    /\ params.band = 1 /\ params.screen_id = 2 /\ params.state = "vert"
    /\ old_state = "off"
    /\ current_states[1][2] = "vert"
    /\ current_states[1][1] = "rouge"

\* C8: whenever the immediate send of a request and a send of the Refresh
\* Loop for the same (band, screen) are in flight together, both carry the
\* same payload.
InFlightBoth ==
    /\ mainPc = "send" /\ pollPc = "send"
    /\ Pair(pollIdx) = << params.band, params.screen_id >>

C8_SamePayloadInFlight ==
    InFlightBoth =>
        build_payload(params.screen_id, SnapState(pollIdx))
            = build_payload(params.screen_id, params.state)

\* C9: graceful shutdown issues exactly one 'off' send for every configured
\* (band, screen), in loop order, whatever the table holds and whether or
\* not earlier sends failed, and no socket is closed before the last of them.
ShutdownSends(band, screen_id) ==
    Cardinality({i \in 1..Len(shutSent) :
                   shutSent[i].band = band /\ shutSent[i].screen_id = screen_id})

C9_ShutdownSendsOffOnce ==
    /\ \A i \in 1..Len(shutSent) :
         /\ i <= NPairs
         /\ IsSend(shutSent[i], Pair(i)[1], Pair(i)[2], "off")
    /\ mainPc = "shutdown" => Len(shutSent) = shutIdx - 1
    /\ mainPc \in {"close", "exited"} =>
         \A band \in BANDEAUX, screen_id \in SCREENS :
            ShutdownSends(band, screen_id) = 1
    /\ (\E band \in BANDEAUX : udp_sockets[band] = "closed") =>
         /\ mainPc \in {"close", "exited"}
         /\ Len(shutSent) = NPairs
    /\ mainPc \notin {"shutdown", "close", "exited"} => shutSent = << >>

\* Shutdown from {(1,1) = rouge, (2,1) = off}: the first OFF send failed,
\* the others were still issued, then the sockets were closed.
C9_Witness ==
    /\ mainPc = "exited"
    /\ current_states[1][1] = "rouge" /\ current_states[2][1] = "off"
    /\ Len(shutSent) = NPairs
    /\ ~shutSent[1].ok /\ shutSent[2].ok /\ shutSent[NPairs].ok
    /\ \A band \in BANDEAUX : udp_sockets[band] = "closed"

\* C10: once the shutdown sequence has completed, every entry of the table
\* holds 'off'.
C10_TableResetAtShutdown ==
    mainPc \in {"close", "exited"} => current_states = AllOff

\* C11: at startup every entry is 'off', and in every reachable state the
\* table has exactly one entry for each configured band and each screen in
\* {1,2}, holding one of the four states: no request and no refresh cycle
\* adds or removes an entry.
C11_TableShape ==
    /\ DOMAIN current_states = BANDEAUX
    /\ \A band \in BANDEAUX :
         /\ DOMAIN current_states[band] = {1, 2}
         /\ \A screen_id \in {1, 2} :
              current_states[band][screen_id] \in {"off", "rouge", "vert", "jaune"}
    /\ (nreq = 0 \/ mainPc \in {"startup", "aborted", "start_poller", "main"})
          => \A band \in BANDEAUX, screen_id \in {1, 2} :
                current_states[band][screen_id] = "off"

\* Two requests and a refresh cycle later: two entries overwritten, the
\* others as created.
C11_Witness ==
    /\ mainPc = "serve" /\ nreq = MaxRequests
    /\ pollPc = "sleep" /\ Len(pollSent) = 2
    /\ current_states[1][1] = "rouge" /\ current_states[2][2] = "jaune"
    /\ current_states[1][2] = "off" /\ current_states[2][1] = "off"

\* C12: only the write of a validated request changes the table: a step of
\* the Refresh Loop (snapshot or re-send), a send_tally_udp call of any
\* caller, successful or failed, and a favicon request leave every entry
\* unchanged.
PollerStep == pollPc' # pollPc \/ pollSent' # pollSent \/ states_snapshot' # states_snapshot

SendStep == httpSent' # httpSent \/ pollSent' # pollSent \/ shutSent' # shutSent \/ wire' # wire

FaviconStep == response' = 204 \/ response = 204

C12_Step ==
    /\ (PollerStep \/ SendStep \/ FaviconStep) => current_states' = current_states
    /\ current_states' # current_states =>
          /\ Validated(params)
          /\ mainPc = "write"
          /\ response = 0 /\ httpSent = << >>

C12_OnlyRequestsWrite == [][C12_Step]_vars

\* A favicon request answered 204 and a cycle whose send failed, with the
\* entry written by the earlier request still in place.
C12_Witness ==
    /\ mainPc = "done" /\ response = 204
    /\ pollPc = "sleep" /\ Len(pollSent) = 1 /\ ~pollSent[1].ok
    /\ IsSend(pollSent[1], 1, 1, "rouge")
    /\ current_states[1][1] = "rouge"

\* C13: a send whose band is not configured, whose screen is outside {1,2},
\* whose state is outside the four states, or whose socket operation
\* errors, returns failure, transmits no datagram and lets no exception
\* reach its caller; a send that returns success transmitted one datagram,
\* the 28 bytes of its arguments, for its (band, screen) and nothing else.
BadSendArgs ==
    \/ params.band \notin BANDEAUX
    \/ params.screen_id \notin {1, 2}
    \/ params.state \notin {"off", "rouge", "vert", "jaune"}

SocketError ==
    /\ params.band \in BANDEAUX
    /\ udp_sockets[params.band] # "open" \/ nfail > 0

C13_SendFailsSafely ==
    mainPc = "returned" =>
        LET rec == httpSent[1]
        IN  /\ Len(httpSent) = 1
            /\ ~rec.raised
            /\ success = rec.ok
            /\ (BadSendArgs \/ SocketError) =>
                  /\ ~rec.ok
                  /\ rec.datagram = NoPayload
                  /\ wire = NothingSent
            /\ rec.ok =>
                  /\ Len(rec.datagram) = 28
                  /\ wire = [NothingSent EXCEPT
                               ![params.band][params.screen_id] = rec.datagram]
            /\ ~(BadSendArgs \/ SocketError) => rec.ok

\* send(1, 3, rouge) on an open socket: failure, nothing on the wire.
C13_Witness ==
    /\ mainPc = "returned"
    /\ params.band = 1 /\ params.screen_id = 3 /\ params.state = "rouge"
    /\ udp_sockets[1] = "open" /\ nfail = 0
    /\ ~success /\ wire = NothingSent

\* C16: for screen in {1,2} and each of the four states the encoder yields
\* exactly 28 bytes: 5A 1C 00 20 0X FF 00 Y 05 (X = screen, Y = 7A for
\* screen 1, 00 for screen 2), the state code (off 07, rouge 17, vert 27,
\* jaune 37), 16 zero bytes, the checksum (code + 15 for screen 1,
\* code + 9C for screen 2, mod 256) and DD; the bytes depend on
\* (screen, state) only.
StateCode(state) ==
    CASE state = "off"   -> 7
      [] state = "rouge" -> 23
      [] state = "vert"  -> 39
      [] state = "jaune" -> 55

C16_PayloadLayout ==
    (mainPc = "returned" /\ ~BadSendArgs) =>
        /\ ~SocketError => httpSent[1].ok
        /\ httpSent[1].ok =>
             LET d    == httpSent[1].datagram
                 X    == params.screen_id
                 code == StateCode(params.state)
             IN  /\ Len(d) = 28
                 /\ SubSeq(d, 1, 9) =
                      << 90, 28, 0, 32, X, 255, 0, IF X = 1 THEN 122 ELSE 0, 5 >>
                 /\ d[10] = code
                 /\ \A i \in 11..26 : d[i] = 0
                 /\ d[27] = (code + (IF X = 1 THEN 21 ELSE 156)) % 256
                 /\ d[28] = 221

\* encode(2, jaune) as sent to band 2: checksum 37 + 9C = D3.
C16_Witness ==
    /\ mainPc = "returned" /\ success
    /\ params.band = 2 /\ params.screen_id = 2 /\ params.state = "jaune"
    /\ httpSent[1].datagram[5] = 2
    /\ httpSent[1].datagram[8] = 0
    /\ httpSent[1].datagram[10] = 55
    /\ httpSent[1].datagram[27] = 211

\* C14: in every cycle the loop attempts, in table order, one send for each
\* entry of its snapshot that is not 'off', carrying the state found in the
\* snapshot, and none for an 'off' entry; a send that fails prevents
\* neither the remaining sends of the cycle nor the next cycle.
ActiveBefore(i) == {j \in 1..NPairs : j < i /\ SnapState(j) # "off"}

C14_CycleSendsSnapshot ==
    pollPc \in {"send", "sleep"} =>
        /\ Len(pollSent) = Cardinality(ActiveBefore(pollIdx))
        /\ \A k \in 1..Len(pollSent) :
             \E j \in ActiveBefore(pollIdx) :
                /\ Cardinality(ActiveBefore(j)) = k - 1
                /\ IsSend(pollSent[k], Pair(j)[1], Pair(j)[2], SnapState(j))
                /\ ~pollSent[k].raised
                /\ pollSent[k].ok =>
                     pollSent[k].datagram = build_payload(Pair(j)[2], SnapState(j))
        /\ pollPc = "send" =>
             /\ pollIdx <= NPairs
             /\ SnapState(pollIdx) # "off"
             /\ ProcessAlive => ENABLED PollerSend
        /\ pollPc = "sleep" =>
             /\ pollIdx = NPairs + 1
             /\ ProcessAlive => ENABLED PollerWake

\* Snapshot {(1,1): rouge, (2,2): jaune}: the first send of the cycle
\* failed, the second went out, and the loop sleeps before its next cycle.
C14_Witness ==
    /\ pollPc = "sleep" /\ ProcessAlive
    /\ Len(pollSent) = 2
    /\ IsSend(pollSent[1], 1, 1, "rouge") /\ ~pollSent[1].ok
    /\ IsSend(pollSent[2], 2, 2, "jaune") /\ pollSent[2].ok
    /\ states_snapshot[1][2] = "off" /\ states_snapshot[2][1] = "off"

\* C15: when the socket of some band cannot be created at start-up the
\* program stops there: the loop is never started, no request is served and
\* no datagram is sent.  Conversely, whenever the loop or the server is
\* running every configured band has its one socket, created before the
\* loop started.
Serving == mainPc \in {"start_poller", "main", "serve", "shutdown"} \cup HandlerPcs

C15_SocketsBeforeService ==
    /\ DOMAIN udp_sockets = BANDEAUX
    /\ mainPc = "aborted" =>
          /\ \E band \in BANDEAUX : udp_sockets[band] = "none"
          /\ pollPc = "off" /\ pollSent = << >>
          /\ nreq = 0 /\ httpSent = << >> /\ response = 0
          /\ shutSent = << >>
          /\ wire = NothingSent
          /\ ~ENABLED Next
    /\ Serving => \A band \in BANDEAUX : udp_sockets[band] = "open"
    /\ (pollPc # "off" \/ nreq > 0 \/ wire # NothingSent) =>
          \A band \in BANDEAUX : udp_sockets[band] # "none"

\* The socket of band 1 was created, the one of band 2 was not.
C15_Witness ==
    /\ mainPc = "aborted"
    /\ udp_sockets[1] = "open" /\ udp_sockets[2] = "none"
    /\ pollPc = "off" /\ nreq = 0

\* C17: once requests have stopped and every send has succeeded, for each
\* (band, screen) that was ever sent a datagram the last datagram on the
\* wire carries the state the table holds for it.  Stated at a point after
\* which nothing changes the wire any more: no request is in progress, no
\* send has ever failed, and the loop has completed a cycle whose snapshot
\* is the present table.
Settled ==
    /\ Quiet
    /\ nfail = 0
    /\ pollPc = "sleep"
    /\ states_snapshot = current_states

WireAgrees(band, screen_id) ==
    wire[band][screen_id] # NoPayload =>
        wire[band][screen_id] = build_payload(screen_id, current_states[band][screen_id])

C17_WireAgreesWhenSettled ==
    Settled => \A band \in BANDEAUX, screen_id \in SCREENS : WireAgrees(band, screen_id)

\* C18: when the immediate send of a validated request fails and the
\* request is answered 500, the table entry (band, screen) holds the
\* requested state, not the previous one; every snapshot the loop takes
\* from then on holds it too, and a cycle on such a snapshot re-sends a
\* requested state other than 'off'.
SendFailed ==
    /\ Validated(params)
    /\ mainPc \in {"respond", "done"}
    /\ ~success

C18_NoRollbackOnFailure ==
    SendFailed =>
        LET band == params.band
            screen_id == params.screen_id
        IN  /\ mainPc = "done" => response = 500
            /\ current_states[band][screen_id] = params.state
            /\ pollPc = "release" => states_snapshot[band][screen_id] = params.state
            /\ ( /\ pollPc = "sleep"
                 /\ states_snapshot[band][screen_id] = params.state
                 /\ params.state # "off" )
                 => CycleSentOnce(band, screen_id, params.state)

\* (1,1) was vert; a request for rouge was written, its send failed and it
\* was answered 500; the table holds rouge and a later cycle of the loop has
\* put rouge on the wire.
C18_Witness ==
    /\ mainPc = "done" /\ response = 500
    /\ params.band = 1 /\ params.screen_id = 1 /\ params.state = "rouge"
    /\ old_state = "vert"
    /\ current_states[1][1] = "rouge"
    /\ pollPc = "sleep"
    /\ \E i \in 1..Len(pollSent) : IsSend(pollSent[i], 1, 1, "rouge") /\ pollSent[i].ok
    /\ wire[1][1] = build_payload(1, "rouge")

\* C19: the server handles one request at a time.  A request is taken up
\* only when no other is in progress; from a request's table write to its
\* immediate send the main thread does nothing but release the lock and
\* send for that same request (or leave for shutdown); and every immediate
\* send is the only one of its request and carries the state its own write
\* left in the table, so two requests for the same (band, screen) send in
\* the order of their writes.
C19_Step ==
    /\ nreq' # nreq =>
          /\ nreq' = nreq + 1
          /\ mainPc = "serve" /\ mainPc' \in {"validate", "done"}
          /\ params = NoParams /\ httpSent = << >>
          /\ state_lock # "main"
    /\ (mainPc \in {"unlock", "send"} /\ mainPc' # mainPc) =>
          \/ mainPc' = "shutdown"
          \/ /\ params' = params /\ nreq' = nreq
             /\ current_states' = current_states
             /\ mainPc' = (IF mainPc = "unlock" THEN "send" ELSE "respond")
    /\ (httpSent' # httpSent /\ httpSent' # << >>) =>
          /\ mainPc = "send" /\ httpSent = << >> /\ Len(httpSent') = 1
          /\ Validated(params)
          /\ IsSend(httpSent'[1], params.band, params.screen_id, params.state)
          /\ current_states[params.band][params.screen_id] = params.state
    /\ current_states' # current_states =>
          /\ mainPc = "write" /\ httpSent = << >>
          /\ params' = params

C19_RequestsSerialized == [][C19_Step]_vars

\* Second request for (1,1): rouge was written and sent by the first one,
\* vert is written and sent by the second.
C19_Witness ==
    /\ nreq = 2 /\ mainPc = "respond"
    /\ params.band = 1 /\ params.screen_id = 1 /\ params.state = "vert"
    /\ old_state = "rouge"
    /\ Len(httpSent) = 1 /\ httpSent[1].ok
    /\ current_states[1][1] = "vert"
    /\ wire[1][1] = build_payload(1, "vert")

\* C20: once the shutdown sequence has transmitted 'off' for a
\* (band, screen), no later datagram for that pair carries another state:
\* the last datagram on the wire for it is the 'off' payload, up to and
\* after the closing of its socket.
C20_IdleAfterShutdownSend ==
    \A i \in 1..Len(shutSent) :
        shutSent[i].ok =>
            wire[shutSent[i].band][shutSent[i].screen_id]
                = build_payload(shutSent[i].screen_id, "off")

====
